---- MODULE Spec2Model ----
(***************************************************************************)
(* svg-dump (src/src/main.rs): one invocation of the command line tool,    *)
(* from main's argument check to the process's exit status.                *)
(*                                                                         *)
(* All text (documents, Strings, output lines) is a sequence of bytes      *)
(* 0..255, the UTF-8 encoding Rust's str and String hold.  A command line  *)
(* argument is the bytes the operating system hands over, which need not   *)
(* be UTF-8.  Results are records [ok |-> TRUE, val |-> v] or              *)
(* [ok |-> FALSE, err |-> kind].                                           *)
(***************************************************************************)
EXTENDS Integers, Sequences, FiniteSets, TLC

VARIABLES args, pc, func, glyph_id, table, idx, hasher, res, stdout, stderr,
          exit_code, events

vars == <<args, pc, func, glyph_id, table, idx, hasher, res, stdout, stderr,
          exit_code, events>>

Ok(v) == [ok |-> TRUE, val |-> v]

Err(kind) == [ok |-> FALSE, err |-> kind]

(***************************************************************************)
(* Bytes and text.                                                         *)
(***************************************************************************)
\* <[u8]>::starts_with: the prefix is no longer than the slice and equals its head.
starts_with(data, prefix) ==
  /\ Len(data) >= Len(prefix)
  /\ \A i \in 1..Len(prefix) : data[i] = prefix[i]

\* GZIP_HEADER without the compression method byte: a sniff of the two-byte
\* gzip id alone.
GzipHeaderTwoBytes == <<\h1F, \h8B>>

\* const GZIP_HEADER: &[u8] = &[0x1F, 0x8B, 0x08];
GZIP_HEADER == <<\h1F, \h8B, \h08>>

(***************************************************************************)
(* 32-bit words for the library primitives (CRC-32 of the gzip trailer,    *)
(* SHA-256).  TLC's integers are 32-bit signed, so a word is the pair      *)
(* <<hi, lo>> of its 16-bit halves.                                        *)
(***************************************************************************)
Pow2(n) == <<1, 2, 4, 8, 16, 32, 64, 128, 256, 512, 1024, 2048, 4096, 8192,
             16384, 32768, 65536>>[n + 1]

Word(hi, lo) == <<hi, lo>>

\* Byte k (0 = least significant) of word w.
WordByte(w, k) ==
  CASE k = 0 -> w[2] % 256
    [] k = 1 -> w[2] \div 256
    [] k = 2 -> w[1] % 256
    [] k = 3 -> w[1] \div 256

\* The word of four bytes, b0 least significant.
BytesWord(b0, b1, b2, b3) == Word(b3 * 256 + b2, b1 * 256 + b0)

RECURSIVE Xor16(_, _)
Xor16(a, b) ==
  IF a = 0 THEN b
  ELSE IF b = 0 THEN a
  ELSE 2 * Xor16(a \div 2, b \div 2) + ((a + b) % 2)

RECURSIVE And16(_, _)
And16(a, b) ==
  IF a = 0 \/ b = 0 THEN 0
  ELSE 2 * And16(a \div 2, b \div 2) + ((a % 2) * (b % 2))

Xor(a, b) == <<Xor16(a[1], b[1]), Xor16(a[2], b[2])>>

And(a, b) == <<And16(a[1], b[1]), And16(a[2], b[2])>>

Not(a) == <<65535 - a[1], 65535 - a[2]>>

\* Logical shift right by n in 0..31.
Shr(a, n) ==
  IF n >= 16 THEN <<0, a[1] \div Pow2(n - 16)>>
  ELSE <<a[1] \div Pow2(n),
         (a[2] \div Pow2(n)) + ((a[1] % Pow2(n)) * Pow2(16 - n))>>

\* Rotation right by n in 0..31.
Rotr(a, n) ==
  LET m == n % 16
      x == IF n >= 16 THEN <<a[2], a[1]>> ELSE a
  IN  <<(x[1] \div Pow2(m)) + ((x[2] % Pow2(m)) * Pow2(16 - m)),
        (x[2] \div Pow2(m)) + ((x[1] % Pow2(m)) * Pow2(16 - m))>>

\* Wrapping addition (u32::wrapping_add).
Add(a, b) ==
  <<(a[1] + b[1] + ((a[2] + b[2]) \div 65536)) % 65536, (a[2] + b[2]) % 65536>>

(***************************************************************************)
(* CRC-32 (IEEE 802.3, reflected), the checksum of a gzip member's         *)
(* trailer.                                                                *)
(***************************************************************************)
Crc32Poly == Word(\hEDB8, \h8320)

AllOnes == Word(\hFFFF, \hFFFF)

\* (Len(crc) makes TLC evaluate crc at every step rather than at the end.)
RECURSIVE Crc32Bits(_, _)
Crc32Bits(crc, n) ==
  IF n = 0 \/ Len(crc) # 2 THEN crc
  ELSE Crc32Bits(IF crc[2] % 2 = 1 THEN Xor(Shr(crc, 1), Crc32Poly) ELSE Shr(crc, 1),
                 n - 1)

\* The bytes data[lo..hi] folded into crc, in order.  The range is halved so
\* that the depth of the evaluation grows with the logarithm of its length.
RECURSIVE Crc32Update(_, _, _, _)
Crc32Update(crc, data, lo, hi) ==
  IF lo > hi \/ Len(crc) # 2 THEN crc
  ELSE IF lo = hi THEN Crc32Bits(Xor(crc, BytesWord(data[lo], 0, 0, 0)), 8)
  ELSE LET mid == (lo + hi) \div 2
       IN  Crc32Update(Crc32Update(crc, data, lo, mid), data, mid + 1, hi)

Crc32(data) == Xor(Crc32Update(AllOnes, data, 1, Len(data)), AllOnes)

(***************************************************************************)
(* SHA-256 (FIPS 180-4), the digest sha2::Sha256 computes.                 *)
(***************************************************************************)
Sha256K == <<
  Word(\h428A, \h2F98), Word(\h7137, \h4491), Word(\hB5C0, \hFBCF),
  Word(\hE9B5, \hDBA5), Word(\h3956, \hC25B), Word(\h59F1, \h11F1),
  Word(\h923F, \h82A4), Word(\hAB1C, \h5ED5), Word(\hD807, \hAA98),
  Word(\h1283, \h5B01), Word(\h2431, \h85BE), Word(\h550C, \h7DC3),
  Word(\h72BE, \h5D74), Word(\h80DE, \hB1FE), Word(\h9BDC, \h06A7),
  Word(\hC19B, \hF174), Word(\hE49B, \h69C1), Word(\hEFBE, \h4786),
  Word(\h0FC1, \h9DC6), Word(\h240C, \hA1CC), Word(\h2DE9, \h2C6F),
  Word(\h4A74, \h84AA), Word(\h5CB0, \hA9DC), Word(\h76F9, \h88DA),
  Word(\h983E, \h5152), Word(\hA831, \hC66D), Word(\hB003, \h27C8),
  Word(\hBF59, \h7FC7), Word(\hC6E0, \h0BF3), Word(\hD5A7, \h9147),
  Word(\h06CA, \h6351), Word(\h1429, \h2967), Word(\h27B7, \h0A85),
  Word(\h2E1B, \h2138), Word(\h4D2C, \h6DFC), Word(\h5338, \h0D13),
  Word(\h650A, \h7354), Word(\h766A, \h0ABB), Word(\h81C2, \hC92E),
  Word(\h9272, \h2C85), Word(\hA2BF, \hE8A1), Word(\hA81A, \h664B),
  Word(\hC24B, \h8B70), Word(\hC76C, \h51A3), Word(\hD192, \hE819),
  Word(\hD699, \h0624), Word(\hF40E, \h3585), Word(\h106A, \hA070),
  Word(\h19A4, \hC116), Word(\h1E37, \h6C08), Word(\h2748, \h774C),
  Word(\h34B0, \hBCB5), Word(\h391C, \h0CB3), Word(\h4ED8, \hAA4A),
  Word(\h5B9C, \hCA4F), Word(\h682E, \h6FF3), Word(\h748F, \h82EE),
  Word(\h78A5, \h636F), Word(\h84C8, \h7814), Word(\h8CC7, \h0208),
  Word(\h90BE, \hFFFA), Word(\hA450, \h6CEB), Word(\hBEF9, \hA3F7),
  Word(\hC671, \h78F2) >>

Sha256H0 == <<
  Word(\h6A09, \hE667), Word(\hBB67, \hAE85), Word(\h3C6E, \hF372),
  Word(\hA54F, \hF53A), Word(\h510E, \h527F), Word(\h9B05, \h688C),
  Word(\h1F83, \hD9AB), Word(\h5BE0, \hCD19) >>

\* The message padded to whole 64-byte blocks: 0x80, zeros, the bit length
\* 8 * n as 8 big-endian bytes.  The bytes are taken from n itself: the low
\* one is its five low bits shifted by three, the next ones are n shifted
\* right by 5, 13, 21 and 29; a sequence is shorter than 2^31 bytes, so the
\* three high ones are zero.
Sha256Pad(msg) ==
  LET n == Len(msg)
      zeros == 63 - (((n % 64) + 8) % 64)
  IN  msg \o <<128>> \o [i \in 1..zeros |-> 0] \o <<0, 0, 0>>
          \o <<(n \div 536870912) % 256, (n \div 2097152) % 256,
               (n \div 8192) % 256, (n \div 32) % 256, (n % 32) * 8>>

SmallSigma0(x) == Xor(Xor(Rotr(x, 7), Rotr(x, 18)), Shr(x, 3))

SmallSigma1(x) == Xor(Xor(Rotr(x, 17), Rotr(x, 19)), Shr(x, 10))

BigSigma0(x) == Xor(Xor(Rotr(x, 2), Rotr(x, 13)), Rotr(x, 22))

BigSigma1(x) == Xor(Xor(Rotr(x, 6), Rotr(x, 11)), Rotr(x, 25))

Ch(x, y, z) == Xor(And(x, y), And(Not(x), z))

Maj(x, y, z) == Xor(Xor(And(x, y), And(x, z)), And(y, z))

\* The 64-word message schedule of the block starting at byte off + 1.
RECURSIVE Sha256Schedule(_)
Sha256Schedule(w) ==
  IF Len(w) = 64 THEN w
  ELSE LET t == Len(w) + 1
       IN  Sha256Schedule(Append(w,
             Add(Add(SmallSigma1(w[t-2]), w[t-7]),
                 Add(SmallSigma0(w[t-15]), w[t-16]))))

Sha256Block(padded, off) ==
  [t \in 1..16 |-> BytesWord(padded[off + 4*t], padded[off + 4*t - 1],
                             padded[off + 4*t - 2], padded[off + 4*t - 3])]

\* Rounds t..64 on the working variables s = <<a, b, c, d, e, f, g, h>>.
\* (Len(s) makes TLC evaluate s at every round rather than at the end.)
RECURSIVE Sha256Rounds(_, _, _)
Sha256Rounds(s, w, t) ==
  IF t > 64 \/ Len(s) # 8 THEN s
  ELSE LET t1 == Add(Add(Add(s[8], BigSigma1(s[5])), Ch(s[5], s[6], s[7])),
                     Add(Sha256K[t], w[t]))
           t2 == Add(BigSigma0(s[1]), Maj(s[1], s[2], s[3]))
       IN  Sha256Rounds(<<Add(t1, t2), s[1], s[2], s[3],
                          Add(s[4], t1), s[5], s[6], s[7]>>, w, t + 1)

Sha256Compress(h, padded, off) ==
  LET s == Sha256Rounds(h, Sha256Schedule(Sha256Block(padded, off)), 1)
  IN  [i \in 1..8 |-> Add(h[i], s[i])]

RECURSIVE Sha256Blocks(_, _, _)
Sha256Blocks(h, padded, off) ==
  IF off >= Len(padded) THEN h
  ELSE Sha256Blocks(Sha256Compress(h, padded, off), padded, off + 64)

\* The 32 digest bytes of msg: the eight state words, big-endian.
Sha256Digest(msg) ==
  LET h == Sha256Blocks(Sha256H0, Sha256Pad(msg), 0)
  IN  [i \in 1..32 |-> WordByte(h[(i - 1) \div 4 + 1], 3 - ((i - 1) % 4))]

(***************************************************************************)
(* flate2::read::GzDecoder followed by read_to_end: the payload of the     *)
(* first gzip member of data, or an error.  The member is a header (1F 8B, *)
(* CM = 8, FLG, MTIME, XFL, OS, then the optional fields FLG announces), a *)
(* DEFLATE stream and the trailer CRC-32 and ISIZE, little-endian; bytes   *)
(* after the trailer are not read.                                         *)
(***************************************************************************)
\* The DEFLATE stream is read bit by bit, the least significant bit of each
\* byte first; bit 0 is the lowest bit of data[1].
BitAt(data, p) == (data[(p \div 8) + 1] \div Pow2(p % 8)) % 2

HasBits(data, p, n) == p + n <= 8 * Len(data)

\* The n bits from bit p on as a number, the first bit the least significant.
RECURSIVE BitsAt(_, _, _)
BitsAt(data, p, n) ==
  IF n = 0 THEN 0 ELSE BitAt(data, p) + 2 * BitsAt(data, p + 1, n - 1)

MaxCodeLen == 15

\* The canonical Huffman code of a list of code lengths (lens[s + 1] is the
\* length of symbol s, 0 for an unused symbol): for each length, the symbols
\* of that length in increasing order.
HuffTable(lens) ==
  [l \in 1..MaxCodeLen |->
     SelectSeq([s \in 1..Len(lens) |-> s - 1], LAMBDA s : lens[s + 1] = l)]

RECURSIVE HuffUsed(_, _)
HuffUsed(huff, l) ==
  IF l > MaxCodeLen THEN 0 ELSE Len(huff[l]) + HuffUsed(huff, l + 1)

RECURSIVE HuffTotal(_, _)
HuffTotal(huff, l) ==
  IF l > MaxCodeLen THEN 0
  ELSE Len(huff[l]) * Pow2(MaxCodeLen - l) + HuffTotal(huff, l + 1)

\* A code is accepted when it fills the code space exactly, or when it has
\* at most one symbol.
HuffComplete(huff) ==
  HuffUsed(huff, 1) <= 1 \/ HuffTotal(huff, 1) = Pow2(MaxCodeLen)

\* One symbol read from bit p: the symbol and the bit after it.  code is
\* the bits read so far, first the first code of length len.
RECURSIVE HuffDecode(_, _, _, _, _, _)
HuffDecode(huff, data, p, len, code, first) ==
  IF len > MaxCodeLen \/ ~HasBits(data, p, 1) THEN Err("Decompress")
  ELSE LET c == code + BitAt(data, p)
           n == Len(huff[len])
       IN  IF c - first < n THEN Ok(<<huff[len][c - first + 1], p + 1>>)
           ELSE HuffDecode(huff, data, p + 1, len + 1, 2 * c, 2 * (first + n))

LengthBase ==
  <<3, 4, 5, 6, 7, 8, 9, 10, 11, 13, 15, 17, 19, 23, 27, 31, 35, 43, 51, 59,
    67, 83, 99, 115, 131, 163, 195, 227, 258>>

LengthExtra ==
  <<0, 0, 0, 0, 0, 0, 0, 0, 1, 1, 1, 1, 2, 2, 2, 2, 3, 3, 3, 3, 4, 4, 4, 4,
    5, 5, 5, 5, 0>>

DistBase ==
  <<1, 2, 3, 4, 5, 7, 9, 13, 17, 25, 33, 49, 65, 97, 129, 193, 257, 385, 513,
    769, 1025, 1537, 2049, 3073, 4097, 6145, 8193, 12289, 16385, 24577>>

DistExtra ==
  <<0, 0, 0, 0, 1, 1, 2, 2, 3, 3, 4, 4, 5, 5, 6, 6, 7, 7, 8, 8, 9, 9, 10, 10,
    11, 11, 12, 12, 13, 13>>

\* The inflater writes into a window of 32 KiB that starts as zeros and
\* wraps around, and a match is not checked against what has been written:
\* a distance that reaches before the start of the output reads the zeros
\* of the window.  No distance is longer than the window.
\* out with as many zeros in front as the distance dist reaches before its
\* start.
WindowBefore(out, dist) ==
  IF dist <= Len(out) THEN out ELSE [i \in 1..(dist - Len(out)) |-> 0] \o out

\* A match of len bytes at distance dist appended to out, byte by byte, so
\* that a match longer than its distance repeats what it has just written.
CopyMatch(out, dist, len) ==
  out \o [i \in 1..len |->
           WindowBefore(out, dist)[Len(WindowBefore(out, dist)) - dist + 1
                                     + ((i - 1) % dist)]]

\* One symbol of a Huffman block read at st.pos: a literal is appended to
\* the output, a length symbol brings its distance symbol and copies a
\* match, the end-of-block symbol ends the block.  st is [ok, out, pos,
\* done]; an error clears ok and ends the block.
InflateFail(st) == [st EXCEPT !.ok = FALSE, !.done = TRUE]

\* The match of len bytes whose distance code (1-based) was read up to bit r.
InflateMatch(data, st, len, code, r) ==
  IF ~HasBits(data, r, DistExtra[code]) THEN InflateFail(st)
  ELSE [st EXCEPT
          !.out = CopyMatch(st.out,
                            DistBase[code] + BitsAt(data, r, DistExtra[code]),
                            len),
          !.pos = r + DistExtra[code]]

\* d is the distance symbol read after a length of len bytes.
InflateDistance(data, st, len, d) ==
  IF ~d.ok THEN InflateFail(st)
  ELSE IF d.val[1] > 29 THEN InflateFail(st)
  ELSE InflateMatch(data, st, len, d.val[1] + 1, d.val[2])

\* The length whose code (1-based, symbol 257 first) was read up to bit q.
InflateLength(dist, data, st, code, q) ==
  IF ~HasBits(data, q, LengthExtra[code]) THEN InflateFail(st)
  ELSE InflateDistance(data, st,
         LengthBase[code] + BitsAt(data, q, LengthExtra[code]),
         HuffDecode(dist, data, q + LengthExtra[code], 1, 0, 0))

\* s is the literal/length symbol read at st.pos.
InflateLitLen(dist, data, st, s) ==
  IF ~s.ok THEN InflateFail(st)
  ELSE IF s.val[1] < 256
  THEN [st EXCEPT !.out = Append(st.out, s.val[1]), !.pos = s.val[2]]
  ELSE IF s.val[1] = 256 THEN [st EXCEPT !.pos = s.val[2], !.done = TRUE]
  ELSE IF s.val[1] > 285 THEN InflateFail(st)
  ELSE InflateLength(dist, data, st, s.val[1] - 256, s.val[2])

InflateSymbol(lit, dist, data, st) ==
  InflateLitLen(dist, data, st, HuffDecode(lit, data, st.pos, 1, 0, 0))

\* Up to n symbols from st on, stopping at the end of the block.  n is
\* halved so that the depth of the evaluation grows with its logarithm.
RECURSIVE InflateSymbols(_, _, _, _, _)
InflateSymbols(lit, dist, data, st, n) ==
  IF n = 0 \/ st.done THEN st
  ELSE IF n = 1 THEN InflateSymbol(lit, dist, data, st)
  ELSE InflateSymbols(lit, dist, data,
                      InflateSymbols(lit, dist, data, st, n \div 2),
                      n - (n \div 2))

\* The symbols of one Huffman block from bit p on: the output and the bit
\* after the end-of-block symbol.  A symbol takes at least one bit, so the
\* bits that are left bound the number of symbols.
InflateEnd(st) ==
  IF st.ok /\ st.done THEN Ok(<<st.out, st.pos>>) ELSE Err("Decompress")

InflateCodes(lit, dist, data, p, out) ==
  InflateEnd(InflateSymbols(lit, dist, data,
                            [ok |-> TRUE, out |-> out, pos |-> p, done |-> FALSE],
                            8 * Len(data) - p + 1))

\* The code of a fixed-Huffman block (BTYPE 01).
FixedLitLens ==
  [s \in 1..288 |-> IF s <= 144 THEN 8 ELSE IF s <= 256 THEN 9
                     ELSE IF s <= 280 THEN 7 ELSE 8]

FixedDistLens == [s \in 1..32 |-> 5]

FixedLit == HuffTable(FixedLitLens)

FixedDist == HuffTable(FixedDistLens)

\* The order in which a dynamic block (BTYPE 10) stores the lengths of its
\* code-length code.
CodeLenOrder ==
  <<16, 17, 18, 0, 8, 7, 9, 6, 10, 5, 11, 4, 12, 3, 13, 2, 14, 1, 15>>

Repeat(v, n) == [i \in 1..n |-> v]

\* One step of reading the code lengths of a dynamic block, run-length
\* coded with the code cl: 0..15 is a length, 16 repeats the previous
\* length 3..6 times, 17 and 18 are runs of 3..10 and 11..138 zeros.  A
\* repeat with nothing before it is an error.  st is [ok, lens, pos].
\*
\* A run: base plus the number in the next bits copies of v, read at bit q.
ReadRun(data, st, q, bits, base, v) ==
  IF ~HasBits(data, q, bits) THEN [st EXCEPT !.ok = FALSE]
  ELSE [st EXCEPT !.lens = st.lens \o Repeat(v, base + BitsAt(data, q, bits)),
                  !.pos = q + bits]

\* s is the symbol read at st.pos.
ReadCodeLenSymbol(data, st, s) ==
  IF ~s.ok THEN [st EXCEPT !.ok = FALSE]
  ELSE IF s.val[1] < 16
  THEN [st EXCEPT !.lens = Append(st.lens, s.val[1]), !.pos = s.val[2]]
  ELSE IF s.val[1] = 16
  THEN IF Len(st.lens) = 0 THEN [st EXCEPT !.ok = FALSE]
       ELSE ReadRun(data, st, s.val[2], 2, 3, st.lens[Len(st.lens)])
  ELSE IF s.val[1] = 17 THEN ReadRun(data, st, s.val[2], 3, 3, 0)
  ELSE ReadRun(data, st, s.val[2], 7, 11, 0)

ReadCodeLen(cl, data, st) ==
  ReadCodeLenSymbol(data, st, HuffDecode(cl, data, st.pos, 1, 0, 0))

\* Up to n steps from st on, stopping once total lengths are read.
RECURSIVE ReadCodeLenSteps(_, _, _, _, _)
ReadCodeLenSteps(cl, data, st, total, n) ==
  IF n = 0 \/ ~st.ok \/ Len(st.lens) >= total THEN st
  ELSE IF n = 1 THEN ReadCodeLen(cl, data, st)
  ELSE ReadCodeLenSteps(cl, data,
                        ReadCodeLenSteps(cl, data, st, total, n \div 2),
                        total, n - (n \div 2))

\* The total code lengths of a dynamic block from bit p on and the bit
\* after them.  A run that overshoots total is an error.
ReadCodeLensEnd(st, total) ==
  IF st.ok /\ Len(st.lens) = total THEN Ok(<<st.lens, st.pos>>)
  ELSE Err("Decompress")

ReadCodeLens(cl, data, p, total) ==
  ReadCodeLensEnd(ReadCodeLenSteps(cl, data,
                                   [ok |-> TRUE, lens |-> <<>>, pos |-> p],
                                   total, total),
                  total)

\* The lengths of the code-length code of a dynamic block: hclen of them
\* are stored from bit p on, three bits each, in the order CodeLenOrder;
\* the rest are 0.
CodeLenLens(data, p, hclen) ==
  [s \in 1..19 |->
     LET at == CHOOSE i \in 1..19 : CodeLenOrder[i] = s - 1
     IN  IF at <= hclen THEN BitsAt(data, p + 3 * (at - 1), 3) ELSE 0]

\* The symbols of a dynamic block from bit p on, once its two codes are
\* known.
InflateDynamicCodes(data, p, lit, dist, out) ==
  IF ~HuffComplete(lit) \/ ~HuffComplete(dist) THEN Err("Decompress")
  ELSE InflateCodes(lit, dist, data, p, out)

\* The block once its hlit + hdist code lengths ls are read: the first hlit
\* are the literal/length code, the rest the distance code.
InflateDynamicLens(data, hlit, hdist, ls, out) ==
  IF ~ls.ok THEN ls
  ELSE InflateDynamicCodes(data, ls.val[2],
         HuffTable(SubSeq(ls.val[1], 1, hlit)),
         HuffTable(SubSeq(ls.val[1], hlit + 1, hlit + hdist)), out)

\* The block once the code-length code cl is known; its lengths end at bit p.
InflateDynamicTables(data, p, hlit, hdist, cl, out) ==
  IF ~HuffComplete(cl) THEN Err("Decompress")
  ELSE InflateDynamicLens(data, hlit, hdist,
                          ReadCodeLens(cl, data, p, hlit + hdist), out)

\* The most literal/length and distance code lengths a dynamic block may
\* announce.
MaxLitCodes == 286

MaxDistCodes == 30

\* The block once the counts of its header are read: hlit literal/length
\* code lengths, hdist distance code lengths, hclen lengths of the
\* code-length code, which start at bit p.  Counts above the maxima are an
\* error before anything else is read.
InflateDynamicHeader(data, p, hlit, hdist, hclen, out) ==
  IF hlit > MaxLitCodes \/ hdist > MaxDistCodes THEN Err("Decompress")
  ELSE IF ~HasBits(data, p, 3 * hclen) THEN Err("Decompress")
  ELSE InflateDynamicTables(data, p + 3 * hclen, hlit, hdist,
                            HuffTable(CodeLenLens(data, p, hclen)), out)

\* A dynamic-Huffman block whose header starts at bit p.
InflateDynamic(data, p, out) ==
  IF ~HasBits(data, p, 14) THEN Err("Decompress")
  ELSE InflateDynamicHeader(data, p + 14, BitsAt(data, p, 5) + 257,
                            BitsAt(data, p + 5, 5) + 1,
                            BitsAt(data, p + 10, 4) + 4, out)

\* A stored block (BTYPE 00): the rest of the current byte is skipped, then
\* LEN, its complement NLEN and LEN bytes follow.
InflateStored(data, p, out) ==
  LET pos == ((p + 7) \div 8) + 1
  IN  IF pos + 3 > Len(data) THEN Err("Decompress")
      ELSE LET len == data[pos] + 256 * data[pos + 1]
               nlen == data[pos + 2] + 256 * data[pos + 3]
               next == pos + 4 + len
           IN  IF len + nlen # 65535 \/ next - 1 > Len(data)
               THEN Err("Decompress")
               ELSE Ok(<<out \o SubSeq(data, pos + 4, next - 1), 8 * (next - 1)>>)

\* The block whose three header bits start at bit p, by its type: 00 stored,
\* 01 fixed Huffman, 10 dynamic Huffman, 11 reserved.
InflateBlock(data, p, out) ==
  LET btype == BitsAt(data, p + 1, 2)
  IN  IF btype = 0 THEN InflateStored(data, p + 3, out)
      ELSE IF btype = 1 THEN InflateCodes(FixedLit, FixedDist, data, p + 3, out)
      ELSE IF btype = 2 THEN InflateDynamic(data, p + 3, out)
      ELSE Err("Decompress")

\* The blocks of a DEFLATE stream from bit p on: the bytes and the bit after
\* the final block, or an error (reserved block type, a malformed block, a
\* stream that ends early).
RECURSIVE Inflate(_, _, _)

\* block is the result of the block just read, bfinal its BFINAL bit.
InflateRest(data, bfinal, block) ==
  IF ~block.ok \/ bfinal = 1 THEN block
  ELSE Inflate(data, block.val[2], block.val[1])

Inflate(data, p, out) ==
  IF ~HasBits(data, p, 3) THEN Err("Decompress")
  ELSE InflateRest(data, BitAt(data, p), InflateBlock(data, p, out))

\* The flag bits of the gzip header; the bits from FRESERVED up are reserved
\* and must be clear.
FTEXT == 1
FHCRC == 2
FEXTRA == 4
FNAME == 8
FCOMMENT == 16
FRESERVED == 32

Flag(flg, bit) == (flg \div bit) % 2 = 1

\* The most bytes an FNAME or FCOMMENT field may hold before the zero byte
\* that ends it.
MaxHeaderBuf == 65535

\* The position after the zero byte that ends the string starting at pos,
\* 0 when data ends before one or when more than MaxHeaderBuf bytes come
\* before it.  The zero byte is looked for among the first MaxHeaderBuf + 1
\* bytes of the string, which is as far as the decoder reads.
SkipString(data, pos) ==
  LET last == IF Len(data) - pos > MaxHeaderBuf THEN pos + MaxHeaderBuf
              ELSE Len(data)
      zeros == {i \in pos..last : data[i] = 0}
  IN  IF zeros = {} THEN 0
      ELSE (CHOOSE i \in zeros : \A j \in zeros : i <= j) + 1

\* The position after the FEXTRA field that starts at pos (a two-byte
\* length and that many bytes), 0 when data ends before it does.
SkipExtra(data, pos) ==
  IF pos + 1 > Len(data) THEN 0
  ELSE IF pos + 1 + data[pos] + 256 * data[pos + 1] > Len(data) THEN 0
  ELSE pos + 2 + data[pos] + 256 * data[pos + 1]

\* The position after the FHCRC field at pos, which holds the low 16 bits
\* of the CRC-32 of the header before it; 0 when it is cut short or wrong.
SkipHeaderCrc(data, pos) ==
  IF pos + 1 > Len(data) THEN 0
  ELSE IF Crc32(SubSeq(data, 1, pos - 1))[2] = data[pos] + 256 * data[pos + 1]
  THEN pos + 2
  ELSE 0

\* The optional field of the header that FLG announces with bit, skipped
\* from pos on; pos = 0 stands for a header already found malformed.
SkipField(data, pos, bit) ==
  IF pos = 0 \/ ~Flag(data[4], bit) THEN pos
  ELSE IF bit = FEXTRA THEN SkipExtra(data, pos)
  ELSE IF bit = FHCRC THEN SkipHeaderCrc(data, pos)
  ELSE SkipString(data, pos)

\* The position of the first byte after the header, 0 for a header that is
\* malformed or cut short.  The fixed part is ten bytes; FTEXT announces no
\* field; the fields come in the order FEXTRA, FNAME, FCOMMENT, FHCRC.
GzHeaderEnd(data) ==
  IF Len(data) < 10 THEN 0
  ELSE IF data[1] # \h1F \/ data[2] # \h8B \/ data[3] # 8 THEN 0
  ELSE IF data[4] >= FRESERVED THEN 0
  ELSE SkipField(data,
         SkipField(data, SkipField(data, SkipField(data, 11, FEXTRA), FNAME),
                   FCOMMENT),
         FHCRC)

\* The trailer at the first byte boundary after the stream: the CRC-32 and
\* the length (modulo 2^32) of the payload.
GzTrailer(data, t, out) ==
  IF t + 7 > Len(data) THEN Err("Decompress")
  ELSE IF /\ BytesWord(data[t], data[t+1], data[t+2], data[t+3]) = Crc32(out)
          /\ BytesWord(data[t+4], data[t+5], data[t+6], data[t+7])
               = BytesWord(Len(out) % 256, (Len(out) \div 256) % 256,
                           (Len(out) \div 65536) % 256,
                           (Len(out) \div 16777216) % 256)
  THEN Ok(out)
  ELSE Err("Decompress")

\* body is the result of the DEFLATE stream: its bytes and the bit after it.
GzBody(data, body) ==
  IF ~body.ok THEN body
  ELSE GzTrailer(data, ((body.val[2] + 7) \div 8) + 1, body.val[1])

\* The member whose DEFLATE stream starts at byte start.
GzMember(data, start) ==
  IF start = 0 THEN Err("Decompress")
  ELSE GzBody(data, Inflate(data, 8 * (start - 1), <<>>))

GzDecode(data) == GzMember(data, GzHeaderEnd(data))

(***************************************************************************)
(* String::from_utf8: the bytes unchanged when they are well-formed UTF-8  *)
(* (no overlong form, no surrogate, nothing above U+10FFFF), an error      *)
(* otherwise.                                                              *)
(***************************************************************************)
IsCont(b, i, lo, hi) == i <= Len(b) /\ b[i] >= lo /\ b[i] <= hi

\* The position after the character that starts at b[i], 0 when b[i..] does
\* not start with a well-formed character.
Utf8Next(b, i) ==
  LET c == b[i]
  IN  IF c <= \h7F THEN i + 1
      ELSE IF c >= \hC2 /\ c <= \hDF
      THEN IF IsCont(b, i + 1, \h80, \hBF) THEN i + 2 ELSE 0
      ELSE IF c >= \hE0 /\ c <= \hEF
      THEN IF /\ IsCont(b, i + 1, IF c = \hE0 THEN \hA0 ELSE \h80,
                                  IF c = \hED THEN \h9F ELSE \hBF)
              /\ IsCont(b, i + 2, \h80, \hBF)
           THEN i + 3 ELSE 0
      ELSE IF c >= \hF0 /\ c <= \hF4
      THEN IF /\ IsCont(b, i + 1, IF c = \hF0 THEN \h90 ELSE \h80,
                                  IF c = \hF4 THEN \h8F ELSE \hBF)
              /\ IsCont(b, i + 2, \h80, \hBF)
              /\ IsCont(b, i + 3, \h80, \hBF)
           THEN i + 4 ELSE 0
      ELSE 0

\* The position reached after up to n characters from b[i] on, 0 once a
\* malformed character is met.  n is halved so that the depth of the
\* evaluation grows with its logarithm.
RECURSIVE Utf8Scan(_, _, _)
Utf8Scan(b, i, n) ==
  IF n = 0 \/ i = 0 \/ i > Len(b) THEN i
  ELSE IF n = 1 THEN Utf8Next(b, i)
  ELSE Utf8Scan(b, Utf8Scan(b, i, n \div 2), n - (n \div 2))

Utf8Valid(b, i) == Utf8Scan(b, i, Len(b)) = Len(b) + 1

from_utf8(bytes) == IF Utf8Valid(bytes, 1) THEN Ok(bytes) ELSE Err("Encoding")

(***************************************************************************)
(* fn expand_document(data: &[u8]) -> io::Result<String>                   *)
(***************************************************************************)
expand_document(data) ==
  LET doc == IF starts_with(data, GZIP_HEADER) THEN GzDecode(data) ELSE Ok(data)
  IN  IF ~doc.ok THEN doc ELSE from_utf8(doc.val)

(***************************************************************************)
(* Text conversions of the program.                                        *)
(***************************************************************************)
\* str::parse::<u16>: an optional leading '+', then one or more decimal
\* digits whose value fits 16 bits; everything else is an error.
RECURSIVE ParseDigits(_, _, _)
ParseDigits(digits, i, acc) ==
  IF i > Len(digits) THEN Ok(acc)
  ELSE IF digits[i] < 48 \/ digits[i] > 57 THEN Err("Input")
  ELSE IF acc * 10 > 65535 THEN Err("Input")
  ELSE IF acc * 10 + (digits[i] - 48) > 65535 THEN Err("Input")
  ELSE ParseDigits(digits, i + 1, acc * 10 + (digits[i] - 48))

parse_u16(src) ==
  IF Len(src) = 0 THEN Err("Input")
  ELSE IF Len(src) = 1 /\ src[1] \in {43, 45} THEN Err("Input")
  ELSE ParseDigits(IF src[1] = 43 THEN Tail(src) ELSE src, 1, 0)

\* "{}" of a u16: its decimal digits.
RECURSIVE FmtDecimal(_)
FmtDecimal(n) ==
  IF n < 10 THEN <<48 + n>> ELSE FmtDecimal(n \div 10) \o <<48 + (n % 10)>>

HexDigit(d) == IF d < 10 THEN 48 + d ELSE 97 + (d - 10)

\* "{:x}" of a u8: lower-case hexadecimal, no padding.
FmtLowerHex(byte) ==
  IF byte < 16 THEN <<HexDigit(byte)>>
  ELSE <<HexDigit(byte \div 16), HexDigit(byte % 16)>>

\* fn hexify(bytes: &[u8]) -> String: the fold of "{:x}" over the bytes.
RECURSIVE hexify(_)
hexify(bytes) ==
  IF bytes = <<>> THEN <<>>
  ELSE FmtLowerHex(Head(bytes)) \o hexify(Tail(bytes))

\* The bytes between the two glyph ids in the format string of line 107,
\* as the source file holds them: space, C3 A2 E2 80 A0 E2 80 99, space.
RangeSeparator == <<32, \hC3, \hA2, \hE2, \h80, \hA0, \hE2, \h80, \h99, 32>>

\* The line hashes prints for a record: "{} <sep> {}: {}".
HashLine(record, hash) ==
  FmtDecimal(record.start_glyph_id) \o RangeSeparator
    \o FmtDecimal(record.end_glyph_id) \o <<58, 32>> \o hexify(hash)

(***************************************************************************)
(* Inputs: the command line, and what the font file holds.                 *)
(***************************************************************************)
\* The most records a table of the model holds.
MaxRecords == 3

\* "<svg/>", stored as it is.
DocSvg == <<\h3C, \h73, \h76, \h67, \h2F, \h3E>>

\* gzip of "<g/>" (one fixed-Huffman block).
DocGz ==
  <<\h1F, \h8B, \h08, \h00, \h00, \h00, \h00, \h00, \h00, \h03, \hB3, \h49,
    \hD7, \hB7, \h03, \h00, \h66, \h60, \h5C, \h05, \h04, \h00, \h00, \h00>>

\* DocGz cut three bytes short of its end.
DocGzTruncated ==
  <<\h1F, \h8B, \h08, \h00, \h00, \h00, \h00, \h00, \h00, \h03, \hB3, \h49,
    \hD7, \hB7, \h03, \h00, \h66, \h60, \h5C, \h05, \h04>>

\* gzip of the single byte FF, which is not UTF-8.
DocGzNotUtf8 ==
  <<\h1F, \h8B, \h08, \h00, \h00, \h00, \h00, \h00, \h04, \h03, \h01, \h01,
  \h00, \hFE, \hFF, \hFF, \h00, \h00, \h00, \hFF, \h01, \h00, \h00, \h00>>

\* Two bytes of the gzip magic and nothing else.
DocShort == <<\h1F, \h8B>>

Docs == {DocSvg, DocGz, DocGzTruncated, DocGzNotUtf8, DocShort}

\* <<start_glyph_id, end_glyph_id>> as stored; the last is an inverted range.
Ranges == {<<10, 12>>, <<11, 11>>, <<12, 10>>}

\* What iter_res yields for one stored record: the record, or a parse error
\* when its offset and length do not lie within the table.
RecordResults ==
  {Err("TableParse")} \cup
  {Ok([start_glyph_id |-> r[1], end_glyph_id |-> r[2], svg_document |-> d]) :
     r \in Ranges, d \in Docs}

Tables == UNION {[1..n -> RecordResults] : n \in 0..MaxRecords}

ProgName == <<115, 118, 103, 45, 100, 117, 109, 112>>

FontPath == <<102, 46, 116, 116, 102>>

\* "all"
ArgAll == <<97, 108, 108>>

\* The second argument: all, 10, 11, 13, +11, 65535, 65536, -1, 1a, the empty
\* string.
GlyphArgs ==
  {ArgAll, <<49, 48>>, <<49, 49>>, <<49, 51>>, <<43, 49, 49>>,
   <<54, 53, 53, 51, 53>>, <<54, 53, 53, 51, 54>>, <<45, 49>>, <<49, 97>>, <<>>}

\* Arguments that are not UTF-8: a byte no UTF-8 text holds, and a digit
\* followed by a lead byte with nothing after it.
NotUnicodeArgs == {<<\hFF>>, <<49, \hC3>>}

\* The command lines: the program name alone, with a font path, with a font
\* path and a glyph argument, and with a fourth argument after those.
ArgLists ==
  {<<ProgName>>, <<ProgName, FontPath>>} \cup
  {<<ProgName, FontPath, g>> : g \in GlyphArgs \cup NotUnicodeArgs} \cup
  {<<ProgName, <<\hFF>>>>,
   <<ProgName, FontPath, <<49, 49>>, ArgAll>>,
   <<ProgName, FontPath, <<49, 49>>, <<\hFF>>>>}

\* Option values: None, or Some(v).
None == <<>>

Some(v) == <<v>>

\* The unit value ().
Unit == <<>>

\* enum GlyphToDump { Id(u16), All }
All == [kind |-> "All"]

Id(n) == [kind |-> "Id", id |-> n]

Event(op, i) == [op |-> op, idx |-> i]

(***************************************************************************)
(* The state after the process starts: main has not run.                   *)
(***************************************************************************)
Init ==
  /\ args \in ArgLists
  /\ pc = "main"
  /\ func = "main"
  /\ glyph_id = None
  /\ table = <<>>
  /\ idx = 0
  /\ hasher = <<>>
  /\ res = None
  /\ stdout = <<>>
  /\ stderr = <<>>
  /\ exit_code = None
  /\ events = <<>>

(***************************************************************************)
(* fn main, lines 17-28: env::args().collect(), which panics (exit status  *)
(* 101) on an argument that is not valid Unicode, then the usage check and *)
(* the dispatch on args.get(2).                                            *)
(***************************************************************************)
Main ==
  /\ pc = "main"
  /\ IF \E i \in 1..Len(args) : ~Utf8Valid(args[i], 1)
       THEN /\ stderr' = Append(stderr, [kind |-> "panic", err |-> "Args"])
            /\ exit_code' = Some(101)
            /\ pc' = "exited"
            /\ func' = func
       ELSE IF Len(args) < 2
       THEN /\ stderr' = Append(stderr, [kind |-> "usage", err |-> ""])
            /\ exit_code' = Some(2)
            /\ pc' = "exited"
            /\ func' = func
       ELSE /\ func' = IF Len(args) >= 3 THEN "dump_glyph" ELSE "hashes"
            /\ pc' = IF Len(args) >= 3 THEN "parse_arg" ELSE "read_font"
            /\ UNCHANGED <<stderr, exit_code>>
  /\ UNCHANGED <<args, glyph_id, table, idx, hasher, res, stdout, events>>

\* ParseGlyphArg with the parse moved below fs::read: a bad argument is
\* reported only after the file was read.
ParseGlyphArgAfterRead ==
  /\ pc = "parse_arg"
  /\ LET arg == args[3]
         parsed == parse_u16(arg)
     IN  IF arg = ArgAll
           THEN /\ glyph_id' = Some(All) /\ pc' = "read_font"
                /\ UNCHANGED <<res, events>>
         ELSE IF parsed.ok
           THEN /\ glyph_id' = Some(Id(parsed.val)) /\ pc' = "read_font"
                /\ UNCHANGED <<res, events>>
         ELSE /\ glyph_id' = glyph_id /\ pc' = "report"
              /\ res' = Some(Err("Input"))
              /\ events' = Append(events, Event("fs::read", 0))
  /\ UNCHANGED <<args, func, table, idx, hasher, stdout, stderr, exit_code>>

(***************************************************************************)
(* dump_glyph, lines 45-48: the glyph id argument.  A parse failure        *)
(* returns the error from dump_glyph at once.                              *)
(***************************************************************************)
ParseGlyphArg ==
  /\ pc = "parse_arg"
  /\ LET arg == args[3]
         parsed == parse_u16(arg)
     IN  IF arg = ArgAll
           THEN glyph_id' = Some(All) /\ pc' = "read_font" /\ res' = res
         ELSE IF parsed.ok
           THEN glyph_id' = Some(Id(parsed.val)) /\ pc' = "read_font" /\ res' = res
         ELSE glyph_id' = glyph_id /\ pc' = "report" /\ res' = Some(Err("Input"))
  /\ UNCHANGED <<args, func, table, idx, hasher, stdout, stderr, exit_code, events>>

(***************************************************************************)
(* Lines 50-53 and 92-95: fs::read, FontFile's parse and table_provider(0),*)
(* each of which may fail on the file named by args[1].                    *)
(***************************************************************************)
ReadFont ==
  /\ pc = "read_font"
  /\ \E outcome \in {"read_fails", "font_file_fails", "provider_fails", "ok"} :
       /\ events' =
            events \o <<Event("fs::read", 0)>>
              \o (IF outcome = "read_fails" THEN <<>>
                  ELSE <<Event("FontFile::read", 0)>>)
              \o (IF outcome \in {"read_fails", "font_file_fails"} THEN <<>>
                  ELSE <<Event("table_provider", 0)>>)
       /\ IF outcome = "ok"
            THEN pc' = "read_table_data" /\ res' = res
            ELSE /\ pc' = "report"
                 /\ res' = Some(Err(IF outcome = "read_fails" THEN "IO"
                                    ELSE "ContainerParse"))
  /\ UNCHANGED <<args, func, glyph_id, table, idx, hasher, stdout, stderr,
                 exit_code>>

(***************************************************************************)
(* Lines 54-56 and 96-98: read_table_data(tag::SVG); the font may have no  *)
(* SVG table.                                                              *)
(***************************************************************************)
ReadTableData ==
  /\ pc = "read_table_data"
  /\ events' = Append(events, Event("read_table_data", 0))
  /\ \E found \in BOOLEAN :
       IF found THEN pc' = "read_svg_table" /\ res' = res
       ELSE pc' = "report" /\ res' = Some(Err("ContainerParse"))
  /\ UNCHANGED <<args, func, glyph_id, table, idx, hasher, stdout, stderr,
                 exit_code>>

(***************************************************************************)
(* Lines 57 and 99 (and 101): ReadScope::read::<SvgTable>().unwrap().  The *)
(* header and record array parse to a table, or the parse fails and unwrap *)
(* panics: the panic message goes to standard error and the process ends   *)
(* with status 101.  hashes then creates its hasher.                       *)
(***************************************************************************)
ReadSvgTable ==
  /\ pc = "read_svg_table"
  /\ events' = Append(events, Event("SvgTable::read", 0))
  /\ \E parsed \in {Err("TableParse")} \cup {Ok(t) : t \in Tables} :
       IF parsed.ok
         THEN /\ table' = parsed.val
              /\ pc' = "loop"
              /\ UNCHANGED <<stderr, exit_code>>
         ELSE /\ table' = table
              /\ stderr' = Append(stderr, [kind |-> "panic", err |-> parsed.err])
              /\ exit_code' = Some(101)
              /\ pc' = "exited"
  /\ idx' = 0
  /\ hasher' = <<>>
  /\ UNCHANGED <<args, func, glyph_id, res, stdout>>

\* InRange without the upper bound.
InRangeNoUpper(id, record) == id >= record.start_glyph_id

\* Line 66: id >= record.start_glyph_id && id <= record.end_glyph_id
InRange(id, record) == id >= record.start_glyph_id /\ id <= record.end_glyph_id

\* expand_document of each stored document, evaluated once.
ExpandOfDoc == [d \in Docs |-> expand_document(d)]

\* The call expand_document(record.svg_document) of lines 63 and 67.
Expand(data) == IF data \in Docs THEN ExpandOfDoc[data] ELSE expand_document(data)

\* DumpArm whose Id arm lacks the return: the scan goes on after a match.
DumpArmNoReturn(g, record) ==
  IF g = All \/ (g # All /\ InRange(g.id, record))
  THEN LET doc == Expand(record.svg_document)
       IN  IF doc.ok
           THEN [expanded |-> TRUE, printed |-> <<doc.val>>, returned |-> None]
           ELSE [expanded |-> TRUE, printed |-> <<>>, returned |-> Some(doc)]
  ELSE [expanded |-> FALSE, printed |-> <<>>, returned |-> None]

\* DumpArm whose All arm returns like the Id arm: one document is printed.
DumpArmAlwaysReturns(g, record) ==
  IF g = All \/ (g # All /\ InRange(g.id, record))
  THEN LET doc == Expand(record.svg_document)
       IN  IF doc.ok
           THEN [expanded |-> TRUE, printed |-> <<doc.val>>,
                 returned |-> Some(Ok(Unit))]
           ELSE [expanded |-> TRUE, printed |-> <<>>, returned |-> Some(doc)]
  ELSE [expanded |-> FALSE, printed |-> <<>>, returned |-> None]

\* DumpArm that drops a failed expand_document and goes on to the next
\* record instead of returning the error.
DumpArmSkipsFailure(g, record) ==
  IF g = All \/ (g # All /\ InRange(g.id, record))
  THEN LET doc == Expand(record.svg_document)
       IN  IF doc.ok
           THEN [expanded |-> TRUE, printed |-> <<doc.val>>,
                 returned |-> IF g = All THEN None ELSE Some(Ok(Unit))]
           ELSE [expanded |-> TRUE, printed |-> <<>>, returned |-> None]
  ELSE [expanded |-> FALSE, printed |-> <<>>, returned |-> None]

\* DumpArm with expand_document hoisted above the match: every record read
\* is materialized, matching or not.
DumpArmExpandsFirst(g, record) ==
  LET doc == Expand(record.svg_document)
  IN  IF ~doc.ok
      THEN [expanded |-> TRUE, printed |-> <<>>, returned |-> Some(doc)]
      ELSE IF g = All \/ (g # All /\ InRange(g.id, record))
      THEN [expanded |-> TRUE, printed |-> <<doc.val>>,
            returned |-> IF g = All THEN None ELSE Some(Ok(Unit))]
      ELSE [expanded |-> TRUE, printed |-> <<>>, returned |-> None]

\* Lines 61-72, the match on glyph_id for one record: whether
\* expand_document ran, what was printed, and whether dump_glyph returned
\* (with which result) or went on to the next record.
DumpArm(g, record) ==
  IF g = All \/ (g # All /\ InRange(g.id, record))
  THEN LET doc == Expand(record.svg_document)
       IN  IF doc.ok
           THEN [expanded |-> TRUE, printed |-> <<doc.val>>,
                 returned |-> IF g = All THEN None ELSE Some(Ok(Unit))]
           ELSE [expanded |-> TRUE, printed |-> <<>>, returned |-> Some(doc)]
  ELSE [expanded |-> FALSE, printed |-> <<>>, returned |-> None]

(***************************************************************************)
(* dump_glyph, lines 59-73: one iteration of the loop over iter_res().     *)
(***************************************************************************)
DumpRecord ==
  /\ pc = "loop"
  /\ func = "dump_glyph"
  /\ idx < Len(table)
  /\ idx' = idx + 1
  /\ LET record == table[idx + 1]
     IN  IF ~record.ok
           THEN /\ events' = Append(events, Event("next", idx + 1))
                /\ res' = Some(record)
                /\ pc' = "report"
                /\ stdout' = stdout
           ELSE LET arm == DumpArm(glyph_id[1], record.val)
                IN  /\ events' =
                         events \o <<Event("next", idx + 1)>>
                           \o (IF arm.expanded
                               THEN <<Event("expand_document", idx + 1)>>
                               ELSE <<>>)
                    /\ stdout' = stdout \o arm.printed
                    /\ res' = arm.returned
                    /\ pc' = IF arm.returned = None THEN "loop" ELSE "report"
  /\ UNCHANGED <<args, func, glyph_id, table, hasher, stderr, exit_code>>

\* hasher.update(data)
HasherUpdate(h, data) == h \o data

\* SHA-256 of each stored document, evaluated once.
DigestOfDoc == [d \in Docs |-> Sha256Digest(d)]

\* The digest finalize_reset returns: SHA-256 of everything absorbed.
HasherFinalize(h) == IF h \in Docs THEN DigestOfDoc[h] ELSE Sha256Digest(h)

\* finalize without the reset: the hasher keeps what it absorbed.
HasherKeepsState(h) == h

\* The hasher finalize_reset leaves behind: a fresh one.
HasherReset(h) == <<>>

(***************************************************************************)
(* hashes, lines 102-112: one iteration of the loop over iter_res().       *)
(***************************************************************************)
HashRecord ==
  /\ pc = "loop"
  /\ func = "hashes"
  /\ idx < Len(table)
  /\ idx' = idx + 1
  /\ events' = Append(events, Event("next", idx + 1))
  /\ LET record == table[idx + 1]
     IN  IF ~record.ok
           THEN /\ res' = Some(record)
                /\ pc' = "report"
                /\ UNCHANGED <<hasher, stdout>>
           ELSE LET absorbed == HasherUpdate(hasher, record.val.svg_document)
                IN  /\ stdout' = Append(stdout,
                                        HashLine(record.val, HasherFinalize(absorbed)))
                    /\ hasher' = HasherReset(absorbed)
                    /\ UNCHANGED <<res, pc>>
  /\ UNCHANGED <<args, func, glyph_id, table, stderr, exit_code>>

(***************************************************************************)
(* Lines 75 and 114: the iterator is exhausted and the function returns    *)
(* Ok(()).                                                                 *)
(***************************************************************************)
LoopEnd ==
  /\ pc = "loop"
  /\ idx = Len(table)
  /\ res' = Some(Ok(Unit))
  /\ pc' = "report"
  /\ UNCHANGED <<args, func, glyph_id, table, idx, hasher, stdout, stderr,
                 exit_code, events>>

(***************************************************************************)
(* fn main, lines 30-36: Ok ends the process with status 0; Err prints     *)
(* "Error: {err}" to standard error and exits with status 1.               *)
(***************************************************************************)
Report ==
  /\ pc = "report"
  /\ IF res[1].ok
       THEN stderr' = stderr /\ exit_code' = Some(0)
       ELSE /\ stderr' = Append(stderr, [kind |-> "error", err |-> res[1].err])
            /\ exit_code' = Some(1)
  /\ pc' = "exited"
  /\ UNCHANGED <<args, func, glyph_id, table, idx, hasher, res, stdout, events>>

Next ==
  \/ Main
  \/ ParseGlyphArg
  \/ ReadFont
  \/ ReadTableData
  \/ ReadSvgTable
  \/ DumpRecord
  \/ HashRecord
  \/ LoopEnd
  \/ Report

Spec == Init /\ [][Next]_vars

(***************************************************************************)
(* expand_document on its own: the program inside dump_glyph's loop in     *)
(* "all" mode, about to read the only record of a table, whose document is *)
(* drawn from every byte string of up to MaxInputLen bytes over            *)
(* ExpandAlphabet, the stored documents, the gzip members of GzVariants,   *)
(* and DocGz with one of its first three bytes replaced.                   *)
(***************************************************************************)
MaxInputLen == 3

\* The magic bytes, a near miss of the third, 'a', the two bytes of U+00E9,
\* and a byte no UTF-8 text holds.
ExpandAlphabet == {\h1F, \h8B, \h08, \h07, \h61, \hC3, \hA9, \hFF}

\* gzip of "<g/>" (one stored block).
DocGzStored ==
  <<\h1F, \h8B, \h08, \h00, \h00, \h00, \h00, \h00, \h00, \h03, \h01, \h04,
    \h00, \hFB, \hFF, \h3C, \h67, \h2F, \h3E, \h66, \h60, \h5C, \h05, \h04,
    \h00, \h00, \h00>>

\* gzip of a document of 35 bytes (one dynamic-Huffman block).
DocGzDynamic ==
  <<\h1F, \h8B, \h08, \h00, \h00, \h00, \h00, \h00, \h00, \h03, \h05, \hC1,
    \h41, \h0D, \h00, \h00, \h08, \h03, \h31, \h49, \h33, \h70, \h39, \h2F,
    \hBC, \h26, \h80, \h04, \hFD, \hB4, \hEC, \h55, \h1A, \h69, \hA4, \h91,
    \h89, \h4C, \h64, \h22, \hD9, \hAB, \h0F, \h37, \h12, \hBA, \h29, \h23,
    \h00, \h00, \h00>>

\* gzip of "<g/><g/><a/>": a fixed-Huffman block, an empty stored block and
\* a fixed-Huffman block whose match reaches back into the first.
DocGzTwoBlocks ==
  <<\h1F, \h8B, \h08, \h00, \h00, \h00, \h00, \h00, \h00, \h03, \hB2, \h49,
    \hD7, \hB7, \h03, \h00, \h00, \h00, \hFF, \hFF, \hB3, \h01, \hE1, \h44,
    \h7D, \h3B, \h00, \hD9, \h3B, \hB1, \h1F, \h0C, \h00, \h00, \h00>>

\* gzip of "<g/>" with a file name in its header (FLG = FNAME).
DocGzName ==
  <<\h1F, \h8B, \h08, \h08, \h00, \h00, \h00, \h00, \h04, \h03, \h61, \h2E,
    \h73, \h76, \h67, \h00, \h01, \h04, \h00, \hFB, \hFF, \h3C, \h67, \h2F,
    \h3E, \h66, \h60, \h5C, \h05, \h04, \h00, \h00, \h00>>

\* gzip of "<g/>" with every optional header field (FLG = FTEXT, FHCRC,
\* FEXTRA, FNAME and FCOMMENT).
DocGzAllFields ==
  <<\h1F, \h8B, \h08, \h1F, \h00, \h00, \h00, \h00, \h00, \h03, \h03, \h00,
    \h61, \h62, \h63, \h61, \h2E, \h73, \h76, \h67, \h00, \h68, \h69, \h00,
    \hE0, \h92, \hB3, \h49, \hD7, \hB7, \h03, \h00, \h66, \h60, \h5C, \h05,
    \h04, \h00, \h00, \h00>>

\* DocGzAllFields with a header CRC that does not match.
DocGzBadHeaderCrc ==
  <<\h1F, \h8B, \h08, \h1F, \h00, \h00, \h00, \h00, \h00, \h03, \h03, \h00,
    \h61, \h62, \h63, \h61, \h2E, \h73, \h76, \h67, \h00, \h68, \h69, \h00,
    \hE1, \h92, \hB3, \h49, \hD7, \hB7, \h03, \h00, \h66, \h60, \h5C, \h05,
    \h04, \h00, \h00, \h00>>

\* DocGz with a CRC-32 that does not match its payload.
DocGzBadCrc ==
  <<\h1F, \h8B, \h08, \h00, \h00, \h00, \h00, \h00, \h00, \h03, \hB3, \h49,
    \hD7, \hB7, \h03, \h00, \h67, \h60, \h5C, \h05, \h04, \h00, \h00, \h00>>

\* DocGz with the reserved block type (BTYPE 11).
DocGzReservedBlock ==
  <<\h1F, \h8B, \h08, \h00, \h00, \h00, \h00, \h00, \h00, \h03, \hB7, \h49,
    \hD7, \hB7, \h03, \h00, \h66, \h60, \h5C, \h05, \h04, \h00, \h00, \h00>>

\* A gzip member whose only symbol is a match of 3 bytes at distance 1, with
\* no output before it; the trailer is that of three zero bytes.
DocGzZeroMatch ==
  <<\h1F, \h8B, \h08, \h00, \h00, \h00, \h00, \h00, \h00, \h03, \h03, \h02,
    \h00, \h12, \hD9, \h41, \hFF, \h03, \h00, \h00, \h00>>

\* A gzip member of "a" and a match of 3 bytes at distance 2, one byte before
\* the start of the output; the trailer is that of 61 00 61 00.
DocGzFarMatch ==
  <<\h1F, \h8B, \h08, \h00, \h00, \h00, \h00, \h00, \h00, \h03, \h4B, \h04,
    \h42, \h00, \h9C, \h15, \h38, \hDE, \h04, \h00, \h00, \h00>>

\* A gzip member of "a" in a dynamic block that announces 287 literal/length
\* code lengths.
DocGzTooManyCodes ==
  <<\h1F, \h8B, \h08, \h00, \h00, \h00, \h00, \h00, \h00, \h03, \hF5, \hC0,
    \h21, \h09, \h00, \h00, \h00, \h00, \hA0, \hAD, \hFE, \h3F, \hE1, \h14,
    \h01, \h43, \hBE, \hB7, \hE8, \h01, \h00, \h00, \h00>>

\* gzip of "<g/>" (the stored block of DocGzStored) with a file name of n
\* bytes 'a' in its header.
GzNamed(n) ==
  <<\h1F, \h8B, \h08, \h08, \h00, \h00, \h00, \h00, \h04, \h03>>
    \o [i \in 1..n |-> \h61] \o <<\h00>>
    \o SubSeq(DocGzStored, 11, Len(DocGzStored))

\* The longest file name the decoder takes, and one byte more.
DocGzMaxName == GzNamed(MaxHeaderBuf)

DocGzLongName == GzNamed(MaxHeaderBuf + 1)

\* gzip members of every block type and header layout, well-formed and not,
\* and one followed by bytes that belong to no member.
GzVariants ==
  {DocGzStored, DocGzDynamic, DocGzTwoBlocks, DocGzName, DocGzAllFields,
   DocGzBadHeaderCrc, DocGzBadCrc, DocGzReservedBlock, DocGzZeroMatch,
   DocGzFarMatch, DocGzTooManyCodes, DocGzMaxName, DocGzLongName,
   DocGz \o <<\h61, \hFF>>}

ExpandInputs ==
  UNION {[1..n -> ExpandAlphabet] : n \in 0..MaxInputLen}
    \cup Docs
    \cup GzVariants
    \cup {[DocGz EXCEPT ![i] = b] : i \in 1..3, b \in ExpandAlphabet}

InitExpand ==
  /\ args = <<ProgName, FontPath, ArgAll>>
  /\ pc = "loop"
  /\ func = "dump_glyph"
  /\ glyph_id = Some(All)
  /\ \E d \in ExpandInputs :
       table = <<Ok([start_glyph_id |-> 10, end_glyph_id |-> 12,
                     svg_document |-> d])>>
  /\ idx = 0
  /\ hasher = <<>>
  /\ res = None
  /\ stdout = <<>>
  /\ stderr = <<>>
  /\ exit_code = None
  /\ events = <<Event("fs::read", 0), Event("FontFile::read", 0),
                Event("table_provider", 0), Event("read_table_data", 0),
                Event("SvgTable::read", 0)>>

NextExpand == DumpRecord \/ LoopEnd \/ Report

SpecExpand == InitExpand /\ [][NextExpand]_vars

(***************************************************************************)
(* Vocabulary of the properties.                                           *)
(***************************************************************************)
\* The SVG table parsed: SvgTable::read ran and did not panic.
TableParsed ==
  /\ \E i \in 1..Len(events) : events[i].op = "SvgTable::read"
  /\ \A i \in 1..Len(stderr) : stderr[i].kind # "panic"

\* The record indexes of the events of one kind, in order.
Calls(op) ==
  LET hits == SelectSeq(events, LAMBDA e : e.op = op)
  IN  [i \in 1..Len(hits) |-> hits[i].idx]

\* id lies in the closed interval [start_glyph_id, end_glyph_id].
Contains(record, id) == record.start_glyph_id <= id /\ id <= record.end_glyph_id

Least(S) == CHOOSE k \in S : \A j \in S : k <= j

\* dump_glyph runs with a numeric glyph id, or with "all".
DumpsId == func = "dump_glyph" /\ TableParsed /\ glyph_id[1] # All

DumpsAll == func = "dump_glyph" /\ TableParsed /\ glyph_id[1] = All

\* The records (by index) that parse and contain the glyph id asked for.
Matches ==
  {i \in 1..Len(table) : table[i].ok /\ Contains(table[i].val, glyph_id[1].id)}

\* The first three bytes are 1F 8B 08.
LooksLikeGzip(data) ==
  Len(data) >= 3 /\ data[1] = 31 /\ data[2] = 139 /\ data[3] = 8

\* "<g/>", the text DocGz holds.
TextG == <<\h3C, \h67, \h2F, \h3E>>

\* SHA-256 of "<svg/>":
\* d4dc56669143034f31aa309635d4113d9ad76a02b1739da22c965ed2049be9e6.
DigestSvg ==
  <<\hD4, \hDC, \h56, \h66, \h91, \h43, \h03, \h4F, \h31, \hAA, \h30, \h96,
    \h35, \hD4, \h11, \h3D, \h9A, \hD7, \h6A, \h02, \hB1, \h73, \h9D, \hA2,
    \h2C, \h96, \h5E, \hD2, \h04, \h9B, \hE9, \hE6>>

(***************************************************************************)
(* C1.  dump_glyph with a numeric id prints exactly the materialized       *)
(* document of the first record, in table order, whose closed interval     *)
(* contains the id, and then stops: it calls expand_document on that       *)
(* record only and reads no record after it, whatever the later records    *)
(* are.  (When that document cannot be materialized nothing is printed and *)
(* the run fails.)                                                         *)
(***************************************************************************)
C1_FirstMatchOnly ==
  (pc = "exited" /\ DumpsId /\ Matches # {}
     /\ \A j \in 1..(Least(Matches) - 1) : table[j].ok)
  => LET k == Least(Matches)
         text == Expand(table[k].val.svg_document)
     IN  /\ Calls("expand_document") = <<k>>
         /\ Calls("next") = [i \in 1..k |-> i]
         /\ IF text.ok
              THEN stdout = <<text.val>> /\ exit_code = Some(0) /\ stderr = <<>>
              ELSE stdout = <<>> /\ exit_code = Some(1)

\* Glyph 11 asked of a table whose first record [12, 10] does not contain it
\* and whose second and third, [10, 12] and [11, 11], both do: only the
\* second record's document is printed, and the third record is never read.
C1_Witness ==
  /\ pc = "exited"
  /\ DumpsId
  /\ glyph_id[1].id = 11
  /\ Len(table) = 3
  /\ table[1] = Ok([start_glyph_id |-> 12, end_glyph_id |-> 10,
                    svg_document |-> DocSvg])
  /\ table[2] = Ok([start_glyph_id |-> 10, end_glyph_id |-> 12,
                    svg_document |-> DocGz])
  /\ table[3] = Ok([start_glyph_id |-> 11, end_glyph_id |-> 11,
                    svg_document |-> DocSvg])
  /\ stdout = <<TextG>>
  /\ Calls("next") = <<1, 2>>
  /\ exit_code = Some(0)

(***************************************************************************)
(* C2.  Once the SVG table's data was found, reading its header never      *)
(* panics: a malformed header ends the run like every other failure, with  *)
(* an "Error:" line and status 1, so that the run is still going or has    *)
(* ended with status 0 or 1.                                               *)
(***************************************************************************)
C2_HeaderErrorReported ==
  (\E i \in 1..Len(events) : events[i].op = "SvgTable::read")
  => /\ \A i \in 1..Len(stderr) : stderr[i].kind # "panic"
     /\ exit_code \in {None, Some(0), Some(1)}

(***************************************************************************)
(* C3.  Every line hashes prints ends in the 64 hexadecimal digits of the  *)
(* record's 32-byte digest, two digits per byte.                           *)
(***************************************************************************)
C3_DigestIs64HexDigits ==
  (func = "hashes" /\ TableParsed)
  => \A k \in 1..Len(stdout) :
       Len(stdout[k]) =
         Len(FmtDecimal(table[k].val.start_glyph_id)) + Len(RangeSeparator)
           + Len(FmtDecimal(table[k].val.end_glyph_id)) + 2 + 64

(***************************************************************************)
(* C4.  dump_glyph with a numeric id that no record contains, every record *)
(* of the table being well-formed: every record is read, expand_document   *)
(* is never called, nothing is written to either stream, and the exit      *)
(* status is 0.                                                            *)
(***************************************************************************)
C4_NoMatchNoOutput ==
  (pc = "exited" /\ DumpsId /\ Matches = {}
     /\ \A j \in 1..Len(table) : table[j].ok)
  => /\ Calls("next") = [i \in 1..Len(table) |-> i]
     /\ Calls("expand_document") = <<>>
     /\ stdout = <<>>
     /\ stderr = <<>>
     /\ res = Some(Ok(Unit))
     /\ exit_code = Some(0)

\* Glyph 13 asked of three well-formed records, none of which contains it
\* (13 lies above [10, 12] and [11, 11] and the third range is inverted).
C4_Witness ==
  /\ pc = "exited"
  /\ DumpsId
  /\ glyph_id[1].id = 13
  /\ Len(table) = 3
  /\ \A j \in 1..3 : table[j].ok
  /\ {<<table[j].val.start_glyph_id, table[j].val.end_glyph_id>> : j \in 1..3}
       = Ranges
  /\ Calls("next") = <<1, 2, 3>>
  /\ stdout = <<>>
  /\ exit_code = Some(0)

(***************************************************************************)
(* C5.  dump_glyph with "all", every record parsing and every document     *)
(* materializing: the k-th document printed is the k-th record's, and as   *)
(* many are printed as the table has records.                              *)
(***************************************************************************)
C5_AllInTableOrder ==
  (pc = "exited" /\ DumpsAll
     /\ \A j \in 1..Len(table) :
          table[j].ok /\ Expand(table[j].val.svg_document).ok)
  => /\ stdout = [k \in 1..Len(table) |-> Expand(table[k].val.svg_document).val]
     /\ Calls("expand_document") = [k \in 1..Len(table) |-> k]
     /\ exit_code = Some(0)

\* Three records over overlapping ranges, the first and third sharing the
\* same document bytes: "<svg/>", "<g/>", "<svg/>" are printed in that order.
C5_Witness ==
  /\ pc = "exited"
  /\ DumpsAll
  /\ Len(table) = 3
  /\ \A j \in 1..3 : table[j].ok
  /\ table[1].val.svg_document = DocSvg
  /\ table[2].val.svg_document = DocGz
  /\ table[3].val.svg_document = DocSvg
  /\ table[1].val.start_glyph_id = 10 /\ table[1].val.end_glyph_id = 12
  /\ table[2].val.start_glyph_id = 11 /\ table[2].val.end_glyph_id = 11
  /\ stdout = <<DocSvg, TextG, DocSvg>>
  /\ exit_code = Some(0)

(***************************************************************************)
(* C6.  A glyph id argument that is neither "all" nor a 16-bit unsigned    *)
(* decimal (here 65536, -1, 1a and the empty string) fails dump_glyph,     *)
(* once main has called it, before anything is read: no file read, no      *)
(* table lookup, no output, and the run ends with one "Error:" line and    *)
(* status 1.                                                               *)
(***************************************************************************)
BadGlyphArgs == {<<54, 53, 53, 51, 54>>, <<45, 49>>, <<49, 97>>, <<>>}

C6_BadGlyphArgReadsNothing ==
  (func = "dump_glyph" /\ args[3] \in BadGlyphArgs)
  => /\ events = <<>>
     /\ stdout = <<>>
     /\ glyph_id = None
     /\ pc \in {"parse_arg", "report", "exited"}
     /\ pc \in {"report", "exited"} => res = Some(Err("Input"))
     /\ pc = "exited"
          => exit_code = Some(1) /\ stderr = <<[kind |-> "error", err |-> "Input"]>>

\* The run of "svg-dump f.ttf 65536" after it has ended.
C6_Witness ==
  /\ pc = "exited"
  /\ Len(args) = 3
  /\ args[3] = <<54, 53, 53, 51, 54>>
  /\ events = <<>>
  /\ exit_code = Some(1)

(***************************************************************************)
(* C7.  expand_document on data: when the first three bytes are 1F 8B 08   *)
(* the result is the UTF-8 text of the decompressed stream, an error when  *)
(* decompression fails; otherwise (shorter inputs included) the result is  *)
(* the bytes themselves.  In both cases bytes that are not UTF-8 are an    *)
(* error, never a substituted string.  Seen through dump_glyph "all" on a  *)
(* one-record table: what is printed and what is returned.  What a gzip    *)
(* input must give is written down here, not decoded: the members print    *)
(* the text they were made from, the malformed ones and those too short to *)
(* hold a header and a trailer (18 bytes) are decompression errors, and    *)
(* the member of bytes that are not UTF-8 is an encoding error.            *)
(***************************************************************************)
\* "<svg><g/><g/><g/><a/><a/><a/></svg>", the payload of DocGzDynamic.
TextDynamic ==
  <<\h3C, \h73, \h76, \h67, \h3E, \h3C, \h67, \h2F, \h3E, \h3C, \h67, \h2F,
    \h3E, \h3C, \h67, \h2F, \h3E, \h3C, \h61, \h2F, \h3E, \h3C, \h61, \h2F,
    \h3E, \h3C, \h61, \h2F, \h3E, \h3C, \h2F, \h73, \h76, \h67, \h3E>>

\* "<g/><g/><a/>", the payload of DocGzTwoBlocks.
TextTwoBlocks ==
  <<\h3C, \h67, \h2F, \h3E, \h3C, \h67, \h2F, \h3E, \h3C, \h61, \h2F, \h3E>>

\* The text each gzip member of the inputs that decodes holds, as the
\* repository's decoder gives it.
GzPayload(data) ==
  IF data = DocGzDynamic THEN TextDynamic
  ELSE IF data = DocGzTwoBlocks THEN TextTwoBlocks
  ELSE IF data = DocGzZeroMatch THEN <<0, 0, 0>>
  ELSE IF data = DocGzFarMatch THEN <<\h61, 0, \h61, 0>>
  ELSE TextG

GzWellFormed ==
  {DocGz, DocGzStored, DocGzDynamic, DocGzTwoBlocks, DocGzName, DocGzAllFields,
   DocGzZeroMatch, DocGzFarMatch, DocGzMaxName, DocGz \o <<\h61, \hFF>>}

GzMalformed ==
  {DocGzTruncated, DocGzBadHeaderCrc, DocGzBadCrc, DocGzReservedBlock,
   DocGzTooManyCodes, DocGzLongName}

C7_ExpandDocument ==
  (DumpsAll /\ Len(table) = 1 /\ idx = 1 /\ table[1].ok)
  => LET data == table[1].val.svg_document
     IN  IF ~LooksLikeGzip(data)
           THEN IF Utf8Valid(data, 1)
                  THEN stdout = <<data>> /\ (pc = "loop" => res = None)
                  ELSE stdout = <<>> /\ res = Some(Err("Encoding"))
         ELSE IF data \in GzWellFormed
           THEN stdout = <<GzPayload(data)>> /\ (pc = "loop" => res = None)
         ELSE IF data \in GzMalformed \/ Len(data) < 18
           THEN stdout = <<>> /\ res = Some(Err("Decompress"))
         ELSE /\ data = DocGzNotUtf8
              /\ stdout = <<>>
              /\ res = Some(Err("Encoding"))

\* The gzip member DocGzDynamic was expanded and its text printed.
C7_Witness ==
  /\ DumpsAll
  /\ Len(table) = 1
  /\ idx = 1
  /\ table[1].val.svg_document = DocGzDynamic
  /\ stdout = <<TextDynamic>>
  /\ pc = "exited"
  /\ exit_code = Some(0)

(***************************************************************************)
(* C8.  In hashes the k-th line printed is the line of the k-th record     *)
(* with the SHA-256 digest of that record's stored bytes alone, whatever   *)
(* the records before it hold; one line is printed per record read, and    *)
(* the hasher is empty whenever a record is about to be read.              *)
(***************************************************************************)
C8_DigestOfRecordAlone ==
  (func = "hashes" /\ TableParsed)
  => /\ hasher = <<>>
     /\ Len(stdout) = IF idx > 0 /\ ~table[idx].ok THEN idx - 1 ELSE idx
     /\ \A k \in 1..Len(stdout) :
          stdout[k] = HashLine(table[k].val,
                               DigestOfDoc[table[k].val.svg_document])

\* Three records read by hashes, the second and third holding the same
\* bytes after different first records': three lines, the last two with the
\* same digest text.
C8_Witness ==
  /\ func = "hashes"
  /\ pc = "exited"
  /\ Len(table) = 3
  /\ Len(stdout) = 3
  /\ table[1].val.svg_document = DocGz
  /\ table[2].val.svg_document = DocSvg
  /\ table[3].val.svg_document = DocSvg
  /\ stdout[2] = HashLine(table[2].val, DigestSvg)
  /\ SubSeq(stdout[3], Len(stdout[3]) - 9, Len(stdout[3]))
       = SubSeq(stdout[2], Len(stdout[2]) - 9, Len(stdout[2]))
  /\ exit_code = Some(0)

\* Whether reading record j ends the run with an error: the record is
\* malformed, or dump_glyph materializes it and that fails.
FailsAt(j) ==
  \/ ~table[j].ok
  \/ /\ func = "dump_glyph"
     /\ glyph_id[1] = All \/ Contains(table[j].val, glyph_id[1].id)
     /\ ~Expand(table[j].val.svg_document).ok

\* Whether dump_glyph with a numeric id returns Ok at record j.
ReturnsAt(j) ==
  /\ func = "dump_glyph"
  /\ glyph_id[1] # All
  /\ table[j].ok
  /\ Contains(table[j].val, glyph_id[1].id)
  /\ Expand(table[j].val.svg_document).ok

(***************************************************************************)
(* C9.  In both modes the first error of the loop (a malformed record, a   *)
(* failed decompression, invalid UTF-8) ends the operation there: the      *)
(* failing record is the last one read, nothing is printed for it or after *)
(* it, the function returns that error, and the run ends with one          *)
(* "Error:" line and status 1.                                             *)
(***************************************************************************)
C9_FirstErrorEndsRun ==
  (TableParsed /\ \E j \in 1..idx : FailsAt(j))
  => LET j == Least({i \in 1..idx : FailsAt(i)})
         err == IF ~table[j].ok THEN table[j]
                ELSE Expand(table[j].val.svg_document)
     IN  (\A i \in 1..(j - 1) : ~ReturnsAt(i))
         => /\ idx = j
            /\ Calls("next") = [i \in 1..j |-> i]
            /\ Len(stdout) = IF func = "dump_glyph" /\ glyph_id[1] # All
                              THEN 0 ELSE j - 1
            /\ \A i \in 1..Len(Calls("expand_document")) :
                 Calls("expand_document")[i] <= j
            /\ res = Some(err)
            /\ pc \in {"report", "exited"}
            /\ pc = "exited"
                 => /\ exit_code = Some(1)
                    /\ stderr = <<[kind |-> "error", err |-> err.err]>>

\* dump_glyph "all": the second of three records holds a truncated gzip
\* stream, the third a good document; one document was printed, the third
\* record was never read, and the run ended with status 1.
C9_Witness ==
  /\ pc = "exited"
  /\ DumpsAll
  /\ Len(table) = 3
  /\ \A j \in 1..3 : table[j].ok
  /\ table[1].val.svg_document = DocSvg
  /\ table[2].val.svg_document = DocGzTruncated
  /\ table[3].val.svg_document = DocSvg
  /\ stdout = <<DocSvg>>
  /\ Calls("next") = <<1, 2>>
  /\ stderr = <<[kind |-> "error", err |-> "Decompress"]>>
  /\ exit_code = Some(1)

(***************************************************************************)
(* C10.  dump_glyph with a numeric id calls expand_document at most once,  *)
(* and only on a record that contains the id with none before it that      *)
(* does; hashes never calls it.  So a document that cannot be materialized *)
(* fails neither a lookup whose match comes after it nor a digest summary. *)
(***************************************************************************)
C10_ExpandOnlyTheMatch ==
  /\ func = "hashes" /\ TableParsed
       => /\ Calls("expand_document") = <<>>
          /\ (pc = "exited" /\ \A j \in 1..Len(table) : table[j].ok)
               => exit_code = Some(0) /\ Len(stdout) = Len(table)
  /\ DumpsId
       => /\ Len(Calls("expand_document")) <= 1
          /\ \A i \in 1..Len(Calls("expand_document")) :
               LET k == Calls("expand_document")[i]
               IN  /\ k \in Matches
                   /\ \A j \in 1..(k - 1) : j \notin Matches
          /\ (/\ pc = "exited"
              /\ Matches # {}
              /\ \A j \in 1..Least(Matches) : table[j].ok
              /\ Expand(table[Least(Matches)].val.svg_document).ok)
               => exit_code = Some(0)

\* Glyph 10: the first record, [11, 11], holds a truncated gzip stream and
\* does not contain 10; the second, [10, 12], does and is printed.
C10_Witness ==
  /\ pc = "exited"
  /\ DumpsId
  /\ glyph_id[1].id = 10
  /\ Len(table) = 2
  /\ table[1] = Ok([start_glyph_id |-> 11, end_glyph_id |-> 11,
                    svg_document |-> DocGzTruncated])
  /\ table[2] = Ok([start_glyph_id |-> 10, end_glyph_id |-> 12,
                    svg_document |-> DocSvg])
  /\ Calls("expand_document") = <<2>>
  /\ stdout = <<DocSvg>>
  /\ exit_code = Some(0)

====
